---- MODULE Spec2Model ----
(***************************************************************************)
(* State-machine model of src/main.py (SeguRAS): the NameAllocator pools,  *)
(* the ClickableObject.instances registry and the Bag / Item / Tag /       *)
(* Scanner objects with their attachment, containment and ledger fields.   *)
(* Every action is one method call, run to completion (the program is      *)
(* single threaded: Tk callbacks never interleave).                        *)
(***************************************************************************)
EXTENDS Integers, Sequences, FiniteSets, TLC

(* ---------------- bounds of the model ---------------- *)
NumBags == 2
NumItems == 3
NumTags == 2
NumScanners == 2
NumRfids == 2
MaxCap == 2
MaxSuffix == 3
\* How many objects of each class the specifications that start from a
\* populated canvas construct (at most the Num... above).
PopBags == 2
PopItems == 2
PopTags == 2
PopScanners == 2
\* The populated canvas of the deletion specification: its items are PopItems.
CascBags == 1
CascTags == 1
CascScanners == 1
\* The items of the canvases that need one item only.
CascItems == 1
\* Shape centres lie on the grid {0, GridStep, ..., GridMax * GridStep}^2.
GridMax == 2
GridStep == 30
\* max_distance of Tag.find_nearest_item, max_dist of Scanner._find_nearest_bag
\* and max_distance of Item.find_nearest_bag
TagMaxDistance == 60
ScannerMaxDist == 60
ItemMaxDistance == 80

(* ---------------- object identities ---------------- *)
\* A Python object is <<class name, k>>; None is the absent reference.
None == <<"None", 0>>
Bags == {<<"Bag", k>> : k \in 1..NumBags}
Items == {<<"Item", k>> : k \in 1..NumItems}
Tags == {<<"Tag", k>> : k \in 1..NumTags}
Scanners == {<<"Scanner", k>> : k \in 1..NumScanners}
Obj == Bags \cup Items \cup Tags \cup Scanners
Hideable == Items \cup Tags \cup Scanners
Classes == {"Bag", "Item", "Tag", "Scanner"}
ClassOf(o) == o[1]
Rfids == 1..NumRfids
\* Item.rfid when no tag is attached: the string "No RFID".
NoRfid == 0

(* ---------------- names (strings) ---------------- *)
\* A string is modelled as its text without the trailing run of decimal
\* digits (pre) and that run of digits (num).  f"{type_name}{n}" and the
\* regular expression type_name(\d+) are computed on this form.
NoName == [pre |-> "", num |-> <<>>]
CustomName == [pre |-> "x", num |-> <<>>]

RECURSIVE Digits(_)
Digits(n) == IF n < 10 THEN <<n>> ELSE Digits(n \div 10) \o <<n % 10>>

RECURSIVE ToInt(_)
ToInt(d) == IF d = <<>> THEN 0 ELSE 10 * ToInt(SubSeq(d, 1, Len(d) - 1)) + d[Len(d)]

\* f"{type_name}{n}"
Fmt(type_name, n) == [pre |-> type_name, num |-> Digits(n)]
\* re.fullmatch(rf"{re.escape(type_name)}(\d+)", name)
Matches(type_name, nm) == nm.pre = type_name /\ nm.num # <<>>

Min(S) == CHOOSE x \in S : \A y \in S : x <= y

\* Scanner.bag_added_rfids = {}: a dict from bag names to sets of RFIDs
EmptyLedger == [k \in {} |-> {}]

(* ---------------- sequences ---------------- *)
InSeq(s, x) == \E k \in DOMAIN s : s[k] = x
\* list.index(x)
IndexOf(s, x) == Min({k \in DOMAIN s : s[k] = x})
\* list.remove(x): the first occurrence goes (x is in s)
RemoveFirst(s, x) ==
  LET k == IndexOf(s, x)
  IN  SubSeq(s, 1, k - 1) \o SubSeq(s, k + 1, Len(s))

VARIABLES
  made,             \* the objects constructed so far (they stay in memory)
  shape_gone,       \* objects whose canvas shape was canvas.delete()d
  instances,        \* ClickableObject.instances
  name,             \* obj.name
  pools,            \* NameAllocator.pools
  outstanding,      \* history: suffixes handed out by next_name and not released since
  is_open, max_items, items, attached_scanner,     \* Bag fields
  attached_tag, item_rfid,                         \* Item fields
  attached_item, tag_rfid,                         \* Tag fields
  attached_bag, scanned_rfids, bag_added_rfids,    \* Scanner fields
  recorded,         \* history: per scanner and bag object, the RFIDs recorded
                    \* via that bag and not purged for it since
  hidden,           \* Item.hidden, Tag.hidden, Scanner.hidden
  last              \* history: the last call, its arguments and whether it acted

regVars == <<made, shape_gone, instances>>
nameVars == <<name, pools, outstanding>>
bagVars == <<is_open, max_items, items, attached_scanner>>
tagItemVars == <<attached_tag, item_rfid, attached_item, tag_rfid>>
scanVars == <<attached_bag, scanned_rfids, bag_added_rfids, recorded>>
vars == <<regVars, nameVars, bagVars, tagItemVars, scanVars, hidden, last>>

Call(op, self, arg, nm, ok) == [op |-> op, self |-> self, arg |-> arg, nm |-> nm, ok |-> ok]

(* ---------------- NameAllocator ---------------- *)
\* pools.setdefault(type_name, {"next": 1, "free": set()})
FreshPool == [next |-> 1, free |-> {}]

\* next_name: the suffix n it formats into the name
NextSuffix(pool) == IF pool.free # {} THEN Min(pool.free) ELSE pool.next
\* next_name: the pool it leaves
PoolAfterNext(pool) ==
  IF pool.free # {}
  THEN [pool EXCEPT !.free = @ \ {Min(pool.free)}]
  ELSE [pool EXCEPT !.next = @ + 1]

\* release_name with its test written "and": a suffix the counter has not
\* reached is not added.
PoolAfterReleaseAnd(pool, type_name, nm) ==
  IF ~Matches(type_name, nm) THEN pool
  ELSE LET n == ToInt(nm.num)
       IN  IF n < pool.next /\ n \notin pool.free
           THEN [pool EXCEPT !.free = @ \cup {n}]
           ELSE pool

\* release_name: the pool it leaves
PoolAfterRelease(pool, type_name, nm) ==
  IF ~Matches(type_name, nm) THEN pool
  ELSE LET n == ToInt(nm.num)
       IN  IF n < pool.next \/ n \notin pool.free
           THEN [pool EXCEPT !.free = @ \cup {n}]
           ELSE pool

\* history: release_name(type_name, nm) ends the outstanding period of its suffix
OutstandingAfterRelease(out, type_name, nm) ==
  IF Matches(type_name, nm) THEN out \ {ToInt(nm.num)} ELSE out

(* ---------------- canvas ---------------- *)
\* canvas.bbox(obj.shape_id) is not None: the shape exists and is not in
\* state "hidden" (Tk gives a hidden or deleted item no bounding box).  hide()
\* and show() keep the canvas state equal to the hidden flag; a Bag is never
\* hidden.
HasBbox(o) == o \notin shape_gone /\ (o \in Hideable => ~hidden[o])

(* ---------------- ClickableObject ---------------- *)
\* The object a constructor call of class ClassOf(o) builds next.
IsNextNew(o) ==
  /\ o \notin made
  /\ \A p \in Obj : (ClassOf(p) = ClassOf(o) /\ p[2] < o[2]) => p \in made

\* ClickableObject.__init__ with name=None: allocate the name, register.
BaseInit(o) ==
  LET cls == ClassOf(o)
      n == NextSuffix(pools[cls])
  IN  /\ IsNextNew(o)
      /\ made' = made \cup {o}
      /\ name' = [name EXCEPT ![o] = Fmt(cls, n)]
      /\ pools' = [pools EXCEPT ![cls] = PoolAfterNext(pools[cls])]
      /\ outstanding' = [outstanding EXCEPT ![cls] = @ \cup {n}]
      /\ instances' = Append(instances, o)
      /\ UNCHANGED shape_gone
      /\ last' = Call("create", o, None, NoName, TRUE)

\* Bag(app, x, y, max_items=mi)
CreateBag(o, mi) ==
  /\ o \in Bags
  /\ BaseInit(o)
  /\ is_open' = [is_open EXCEPT ![o] = FALSE]
  /\ attached_scanner' = [attached_scanner EXCEPT ![o] = None]
  /\ max_items' = [max_items EXCEPT ![o] = mi]
  /\ items' = [items EXCEPT ![o] = <<>>]
  /\ UNCHANGED <<tagItemVars, scanVars, hidden>>

\* Item(app, x, y)
CreateItem(o) ==
  /\ o \in Items
  /\ BaseInit(o)
  /\ attached_tag' = [attached_tag EXCEPT ![o] = None]
  /\ item_rfid' = [item_rfid EXCEPT ![o] = NoRfid]
  /\ hidden' = [hidden EXCEPT ![o] = FALSE]
  /\ UNCHANGED <<bagVars, attached_item, tag_rfid, scanVars>>

\* Tag(app, x, y): rfid is "RFID-" and a random number
CreateTag(o, r) ==
  /\ o \in Tags
  /\ BaseInit(o)
  /\ attached_item' = [attached_item EXCEPT ![o] = None]
  /\ hidden' = [hidden EXCEPT ![o] = FALSE]
  /\ tag_rfid' = [tag_rfid EXCEPT ![o] = r]
  /\ UNCHANGED <<bagVars, attached_tag, item_rfid, scanVars>>

\* Scanner(app, x, y)
CreateScanner(o) ==
  /\ o \in Scanners
  /\ BaseInit(o)
  /\ attached_bag' = [attached_bag EXCEPT ![o] = None]
  /\ hidden' = [hidden EXCEPT ![o] = FALSE]
  /\ scanned_rfids' = [scanned_rfids EXCEPT ![o] = {}]
  /\ bag_added_rfids' = [bag_added_rfids EXCEPT ![o] = EmptyLedger]
  /\ recorded' = [recorded EXCEPT ![o] = [b \in Bags |-> {}]]
  /\ UNCHANGED <<bagVars, tagItemVars>>

\* The names the rename dialog is given: a text that is no allocator name and
\* an allocator-shaped name of this class.
RenameNames(cls) == {CustomName, Fmt(cls, MaxSuffix)}

\* ClickableObject.rename; new = NoName is a cancelled or empty dialog.
\* (Past the assignment of self.name the method may raise, for an object whose
\* shape has no bounding box or that is not registered: the state stays as
\* assigned.)
Rename(o, new) ==
  /\ o \in made
  /\ new \in RenameNames(ClassOf(o)) \cup {NoName}
  /\ IF new = NoName \/ new = name[o]
     THEN /\ UNCHANGED nameVars
          /\ last' = Call("rename", o, None, new, FALSE)
     ELSE /\ pools' = [pools EXCEPT ![ClassOf(o)] =
                         PoolAfterRelease(pools[ClassOf(o)], ClassOf(o), name[o])]
          /\ outstanding' = [outstanding EXCEPT ![ClassOf(o)] =
                         OutstandingAfterRelease(@, ClassOf(o), name[o])]
          /\ name' = [name EXCEPT ![o] = new]
          /\ last' = Call("rename", o, None, new, TRUE)
  /\ UNCHANGED <<regVars, bagVars, tagItemVars, scanVars, hidden>>

\* ClickableObject.delete (no subclass overrides it)
Delete(o) ==
  /\ o \in made
  /\ shape_gone' = shape_gone \cup {o}
  /\ pools' = [pools EXCEPT ![ClassOf(o)] =
                 PoolAfterRelease(pools[ClassOf(o)], ClassOf(o), name[o])]
  /\ outstanding' = [outstanding EXCEPT ![ClassOf(o)] =
                 OutstandingAfterRelease(@, ClassOf(o), name[o])]
  /\ instances' = IF InSeq(instances, o) THEN RemoveFirst(instances, o) ELSE instances
  /\ last' = Call("delete", o, None, NoName, InSeq(instances, o))
  /\ UNCHANGED <<made, name, bagVars, tagItemVars, scanVars, hidden>>

(* ---------------- hide / show ---------------- *)
\* Tag.hide, Scanner.hide on the flags h
HideOne(h, o) == IF ~h[o] THEN [h EXCEPT ![o] = TRUE] ELSE h
\* Tag.show, Scanner.show
ShowOne(h, o) == IF h[o] THEN [h EXCEPT ![o] = FALSE] ELSE h
\* Item.hide: the attached tag is hidden with the item (at is attached_tag)
ItemHide(h, at, i) ==
  IF ~h[i]
  THEN LET h1 == [h EXCEPT ![i] = TRUE]
       IN  IF at[i] # None THEN HideOne(h1, at[i]) ELSE h1
  ELSE h
\* Item.show(cx, cy)
ItemShow(h, at, i) ==
  IF h[i]
  THEN LET h1 == [h EXCEPT ![i] = FALSE]
       IN  IF at[i] # None THEN ShowOne(h1, at[i]) ELSE h1
  ELSE h

(* ---------------- Item <-> Tag ---------------- *)
\* Item.attach_tag(tag): refuses only when the item has a tag
AttachTagRefuses(i, t) == attached_tag[i] # None

AttachTag(i, t) ==
  /\ i \in Items /\ t \in Tags /\ i \in made /\ t \in made
  /\ IF AttachTagRefuses(i, t)
     THEN /\ UNCHANGED tagItemVars
          /\ last' = Call("attach_tag", i, t, NoName, FALSE)
     ELSE /\ attached_tag' = [attached_tag EXCEPT ![i] = t]
          /\ attached_item' = [attached_item EXCEPT ![t] = i]
          /\ item_rfid' = [item_rfid EXCEPT ![i] = tag_rfid[t]]
          /\ UNCHANGED tag_rfid
          /\ last' = Call("attach_tag", i, t, NoName, TRUE)
  /\ UNCHANGED <<regVars, nameVars, bagVars, scanVars, hidden>>

\* Item.remove_tag
RemoveTag(i) ==
  /\ i \in Items /\ i \in made
  /\ IF attached_tag[i] # None
     THEN LET tag == attached_tag[i]
          IN  /\ attached_tag' = [attached_tag EXCEPT ![i] = None]
              /\ attached_item' = [attached_item EXCEPT ![tag] = None]
              /\ item_rfid' = [item_rfid EXCEPT ![i] = NoRfid]
              /\ hidden' = IF HasBbox(i) THEN ShowOne(hidden, tag) ELSE hidden
              /\ UNCHANGED tag_rfid
              /\ last' = Call("remove_tag", i, tag, NoName, TRUE)
     ELSE /\ UNCHANGED <<tagItemVars, hidden>>
          /\ last' = Call("remove_tag", i, None, NoName, FALSE)
  /\ UNCHANGED <<regVars, nameVars, bagVars, scanVars>>

\* Tag.attach_to_item(item): acts only when both sides are free
AttachToItemAccepts(t, i) == attached_item[t] = None /\ attached_tag[i] = None

AttachToItem(t, i) ==
  /\ i \in Items /\ t \in Tags /\ i \in made /\ t \in made
  /\ IF AttachToItemAccepts(t, i)
     THEN /\ attached_item' = [attached_item EXCEPT ![t] = i]
          /\ attached_tag' = [attached_tag EXCEPT ![i] = t]
          /\ hidden' = HideOne(hidden, t)
          /\ UNCHANGED <<item_rfid, tag_rfid>>
          /\ last' = Call("attach_to_item", t, i, NoName, TRUE)
     ELSE /\ UNCHANGED <<tagItemVars, hidden>>
          /\ last' = Call("attach_to_item", t, i, NoName, FALSE)
  /\ UNCHANGED <<regVars, nameVars, bagVars, scanVars>>

\* Tag.detach_from_item on the fields (at, ai, h) = (attached_tag,
\* attached_item, hidden), with sg the shapes deleted so far: the values it
\* leaves, as a record.  The tag is shown again only if the item's shape has a
\* bounding box.
DetachFields(at, ai, h, sg, t) ==
  IF ai[t] # None
  THEN LET item == ai[t]
       IN  [at |-> [at EXCEPT ![item] = None],
            ai |-> [ai EXCEPT ![t] = None],
            h  |-> IF item \notin sg /\ ~h[item] THEN ShowOne(h, t) ELSE h]
  ELSE [at |-> at, ai |-> ai, h |-> h]

DetachFromItem(t) ==
  /\ t \in Tags /\ t \in made
  /\ LET d == DetachFields(attached_tag, attached_item, hidden, shape_gone, t)
     IN  /\ attached_tag' = d.at
         /\ attached_item' = d.ai
         /\ hidden' = d.h
  /\ UNCHANGED <<item_rfid, tag_rfid>>
  /\ last' = Call("detach_from_item", t, attached_item[t], NoName, attached_item[t] # None)
  /\ UNCHANGED <<regVars, nameVars, bagVars, scanVars>>

(* ---------------- Scanner ledger ---------------- *)
\* bag_added_rfids.get(key, set())
LedgerGet(ba, key) == IF key \in DOMAIN ba THEN ba[key] ELSE {}
\* bag_added_rfids[key] = v
LedgerSet(ba, key, v) == [k \in DOMAIN ba \cup {key} |-> IF k = key THEN v ELSE ba[k]]

\* Scanner.add_rfid_from_bag(rfid, bag) on one scanner's (scanned_rfids,
\* bag_added_rfids) = (sr, ba); the ledger key is bag.name
AddRfidFromBag(sr, ba, rfid, bagname) ==
  IF rfid \in sr
  THEN [sr |-> sr, ba |-> ba]
  ELSE [sr |-> sr \cup {rfid},
        ba |-> LedgerSet(ba, bagname, LedgerGet(ba, bagname) \cup {rfid})]

\* Scanner.remove_rfids_from_bag without the reset of the bag's entry
RemoveRfidsFromBagKeep(sr, ba, bagname) ==
  [sr |-> sr \ LedgerGet(ba, bagname), ba |-> ba]

\* Scanner.remove_rfids_from_bag(bag)
RemoveRfidsFromBag(sr, ba, bagname) ==
  [sr |-> sr \ LedgerGet(ba, bagname), ba |-> LedgerSet(ba, bagname, {})]

(* ---------------- Bag ---------------- *)
OpenBag(b) ==
  /\ b \in Bags /\ b \in made
  /\ is_open' = [is_open EXCEPT ![b] = TRUE]
  /\ last' = Call("open_bag", b, None, NoName, ~is_open[b])
  /\ UNCHANGED <<regVars, nameVars, max_items, items, attached_scanner,
                 tagItemVars, scanVars, hidden>>

CloseBag(b) ==
  /\ b \in Bags /\ b \in made
  /\ is_open' = [is_open EXCEPT ![b] = FALSE]
  /\ last' = Call("close_bag", b, None, NoName, is_open[b])
  /\ UNCHANGED <<regVars, nameVars, max_items, items, attached_scanner,
                 tagItemVars, scanVars, hidden>>

\* Bag.add_item with the capacity test written ">": a full bag takes one more.
AddItemRefusesAbove(b, i) ==
  \/ ~is_open[b]
  \/ Len(items[b]) > max_items[b]
  \/ InSeq(items[b], i)

\* Bag.add_item: the three early returns
AddItemRefuses(b, i) ==
  \/ ~is_open[b]
  \/ Len(items[b]) >= max_items[b]
  \/ InSeq(items[b], i)

AddItem(b, i) ==
  /\ b \in Bags /\ b \in made /\ i \in Items /\ i \in made
  /\ IF AddItemRefuses(b, i)
     THEN /\ UNCHANGED <<items, hidden, scanned_rfids, bag_added_rfids, recorded>>
          /\ last' = Call("add_item", b, i, NoName, FALSE)
     ELSE /\ items' = [items EXCEPT ![b] = Append(@, i)]
          /\ hidden' = ItemHide(hidden, attached_tag, i)
          /\ IF attached_scanner[b] # None /\ attached_tag[i] # None
             THEN LET sc == attached_scanner[b]
                      r == AddRfidFromBag(scanned_rfids[sc], bag_added_rfids[sc],
                                          tag_rfid[attached_tag[i]], name[b])
                  IN  /\ scanned_rfids' = [scanned_rfids EXCEPT ![sc] = r.sr]
                      /\ bag_added_rfids' = [bag_added_rfids EXCEPT ![sc] = r.ba]
                      /\ recorded' = [recorded EXCEPT ![sc][b] =
                                        @ \cup (r.sr \ scanned_rfids[sc])]
             ELSE UNCHANGED <<scanned_rfids, bag_added_rfids, recorded>>
          /\ last' = Call("add_item", b, i, NoName, TRUE)
  /\ UNCHANGED <<regVars, nameVars, is_open, max_items, attached_scanner,
                 tagItemVars, attached_bag>>

\* Bag.remove_item(item) on st = [its: bag.items, sr: scanned_rfids,
\* ba: bag_added_rfids, rec: recorded, h: hidden, raised]: the values it
\* leaves.  With the bag's shape deleted, unpacking canvas.bbox(...) raises
\* before item.show.
RemoveItemFields(st, b, i) ==
  IF st.raised \/ ~InSeq(st.its, i) THEN st
  ELSE LET sc == attached_scanner[b]
           purge == sc # None /\ attached_tag[i] # None
           r == RemoveRfidsFromBag(st.sr[sc], st.ba[sc], name[b])
           st1 == [st EXCEPT !.its = RemoveFirst(st.its, i),
                             !.sr = IF purge THEN [st.sr EXCEPT ![sc] = r.sr] ELSE st.sr,
                             !.ba = IF purge THEN [st.ba EXCEPT ![sc] = r.ba] ELSE st.ba,
                             !.rec = IF purge THEN [st.rec EXCEPT ![sc][b] = {}]
                                     ELSE st.rec]
       IN  IF b \in shape_gone
           THEN [st1 EXCEPT !.raised = TRUE]
           ELSE [st1 EXCEPT !.h = ItemShow(st.h, attached_tag, i)]

RemoveItem(b, i) ==
  /\ b \in Bags /\ b \in made /\ i \in Items /\ i \in made
  /\ LET st == RemoveItemFields([its |-> items[b], sr |-> scanned_rfids,
                                 ba |-> bag_added_rfids, rec |-> recorded,
                                 h |-> hidden, raised |-> FALSE], b, i)
     IN  /\ items' = [items EXCEPT ![b] = st.its]
         /\ scanned_rfids' = st.sr
         /\ bag_added_rfids' = st.ba
         /\ recorded' = st.rec
         /\ hidden' = st.h
  /\ last' = Call("remove_item", b, i, NoName, InSeq(items[b], i))
  /\ UNCHANGED <<regVars, nameVars, is_open, max_items, attached_scanner,
                 tagItemVars, attached_bag>>

\* for item in self.items[:]: self.remove_item(item)
RECURSIVE RemoveEach(_, _, _)
RemoveEach(st, b, snapshot) ==
  IF snapshot = <<>> THEN st
  ELSE RemoveEach(RemoveItemFields(st, b, Head(snapshot)), b, Tail(snapshot))

\* Bag.remove_all_items
RemoveAllItems(b) ==
  /\ b \in Bags /\ b \in made
  /\ LET sc == attached_scanner[b]
         r == RemoveRfidsFromBag(scanned_rfids[sc], bag_added_rfids[sc], name[b])
         st0 == [its |-> items[b],
                 sr |-> IF sc # None THEN [scanned_rfids EXCEPT ![sc] = r.sr]
                        ELSE scanned_rfids,
                 ba |-> IF sc # None THEN [bag_added_rfids EXCEPT ![sc] = r.ba]
                        ELSE bag_added_rfids,
                 rec |-> IF sc # None THEN [recorded EXCEPT ![sc][b] = {}]
                         ELSE recorded,
                 h |-> hidden, raised |-> FALSE]
         st == RemoveEach(st0, b, items[b])
     IN  /\ items' = [items EXCEPT ![b] = st.its]
         /\ scanned_rfids' = st.sr
         /\ bag_added_rfids' = st.ba
         /\ recorded' = st.rec
         /\ hidden' = st.h
  /\ last' = Call("remove_all_items", b, None, NoName, items[b] # <<>>)
  /\ UNCHANGED <<regVars, nameVars, is_open, max_items, attached_scanner,
                 tagItemVars, attached_bag>>

\* Bag.add_scanner without the is_open test
AddScannerAcceptsClosed(b, s) == attached_scanner[b] = None

\* Bag.add_scanner(scanner) returns True
AddScannerAccepts(b, s) == is_open[b] /\ attached_scanner[b] = None

AddScanner(b, s) ==
  /\ b \in Bags /\ b \in made /\ s \in Scanners /\ s \in made
  /\ IF AddScannerAccepts(b, s)
     THEN /\ attached_scanner' = [attached_scanner EXCEPT ![b] = s]
          /\ attached_bag' = [attached_bag EXCEPT ![s] = b]
          /\ hidden' = HideOne(hidden, s)
          /\ last' = Call("add_scanner", b, s, NoName, TRUE)
     ELSE /\ UNCHANGED <<attached_scanner, attached_bag, hidden>>
          /\ last' = Call("add_scanner", b, s, NoName, FALSE)
  /\ UNCHANGED <<regVars, nameVars, is_open, max_items, items, tagItemVars,
                 scanned_rfids, bag_added_rfids, recorded>>

\* Bag.remove_scanner without the call of scanner.show
RemoveScannerFieldsNoShow(asc, ab, h, sg, b) ==
  IF asc[b] # None
  THEN [asc |-> [asc EXCEPT ![b] = None], ab |-> [ab EXCEPT ![asc[b]] = None],
        h |-> h, raised |-> FALSE]
  ELSE [asc |-> asc, ab |-> ab, h |-> h, raised |-> FALSE]

\* Bag.remove_scanner on (asc, ab, h) = (attached_scanner, attached_bag,
\* hidden), with sg the shapes deleted so far.  With the bag's shape deleted,
\* unpacking canvas.bbox(...) raises after the scanner's pointer is cleared.
RemoveScannerFields(asc, ab, h, sg, b) ==
  IF asc[b] # None
  THEN LET ab1 == [ab EXCEPT ![asc[b]] = None]
       IN  IF b \in sg
           THEN [asc |-> asc, ab |-> ab1, h |-> h, raised |-> TRUE]
           ELSE [asc |-> [asc EXCEPT ![b] = None], ab |-> ab1,
                 h |-> ShowOne(h, asc[b]), raised |-> FALSE]
  ELSE [asc |-> asc, ab |-> ab, h |-> h, raised |-> FALSE]

RemoveScanner(b) ==
  /\ b \in Bags /\ b \in made
  /\ LET r == RemoveScannerFields(attached_scanner, attached_bag, hidden, shape_gone, b)
     IN  /\ attached_scanner' = r.asc
         /\ attached_bag' = r.ab
         /\ hidden' = r.h
  /\ last' = Call("remove_scanner", b, attached_scanner[b], NoName, attached_scanner[b] # None)
  /\ UNCHANGED <<regVars, nameVars, is_open, max_items, items, tagItemVars,
                 scanned_rfids, bag_added_rfids, recorded>>

(* ---------------- Scanner <-> Bag ---------------- *)
\* Scanner.attach_to_bag(bag) acts
AttachToBagAccepts(s, b) == is_open[b] /\ attached_scanner[b] = None

AttachToBag(s, b) ==
  /\ b \in Bags /\ b \in made /\ s \in Scanners /\ s \in made
  /\ IF AttachToBagAccepts(s, b)
     THEN /\ attached_scanner' = [attached_scanner EXCEPT ![b] = s]
          /\ attached_bag' = [attached_bag EXCEPT ![s] = b]
          /\ hidden' = HideOne(hidden, s)
          /\ last' = Call("attach_to_bag", s, b, NoName, TRUE)
     ELSE /\ UNCHANGED <<attached_scanner, attached_bag, hidden>>
          /\ last' = Call("attach_to_bag", s, b, NoName, FALSE)
  /\ UNCHANGED <<regVars, nameVars, is_open, max_items, items, tagItemVars,
                 scanned_rfids, bag_added_rfids, recorded>>

\* Scanner.detach_from_bag.  With the bag's shape deleted, unpacking
\* canvas.bbox(...) raises after both pointers are cleared, before show.
DetachFromBag(s) ==
  /\ s \in Scanners /\ s \in made
  /\ IF attached_bag[s] # None
     THEN LET bag == attached_bag[s]
          IN  /\ attached_bag' = [attached_bag EXCEPT ![s] = None]
              /\ attached_scanner' = [attached_scanner EXCEPT ![bag] = None]
              /\ hidden' = IF bag \in shape_gone THEN hidden ELSE ShowOne(hidden, s)
     ELSE UNCHANGED <<attached_scanner, attached_bag, hidden>>
  /\ last' = Call("detach_from_bag", s, attached_bag[s], NoName, attached_bag[s] # None)
  /\ UNCHANGED <<regVars, nameVars, is_open, max_items, items, tagItemVars,
                 scanned_rfids, bag_added_rfids, recorded>>

(* ---------------- Scanner ledger calls ---------------- *)
\* scanner.add_rfid_from_bag(rfid, bag) called directly; bag may be None
CallAddRfidFromBag(s, rfid, b) ==
  /\ s \in Scanners /\ s \in made /\ rfid \in Rfids
  /\ b = None \/ (b \in Bags /\ b \in made)
  /\ IF b = None
     THEN /\ UNCHANGED <<scanned_rfids, bag_added_rfids, recorded>>
          /\ last' = Call("add_rfid_from_bag", s, b, NoName, FALSE)
     ELSE LET r == AddRfidFromBag(scanned_rfids[s], bag_added_rfids[s], rfid, name[b])
          IN  /\ scanned_rfids' = [scanned_rfids EXCEPT ![s] = r.sr]
              /\ bag_added_rfids' = [bag_added_rfids EXCEPT ![s] = r.ba]
              /\ recorded' = [recorded EXCEPT ![s][b] = @ \cup (r.sr \ scanned_rfids[s])]
              /\ last' = Call("add_rfid_from_bag", s, b, NoName, rfid \notin scanned_rfids[s])
  /\ UNCHANGED <<regVars, nameVars, bagVars, tagItemVars, attached_bag, hidden>>

\* scanner.remove_rfids_from_bag(bag) called directly; with bag None the
\* read of bag.name raises before anything is changed
CallRemoveRfidsFromBag(s, b) ==
  /\ s \in Scanners /\ s \in made
  /\ b = None \/ (b \in Bags /\ b \in made)
  /\ IF b = None
     THEN /\ UNCHANGED <<scanned_rfids, bag_added_rfids, recorded>>
          /\ last' = Call("remove_rfids_from_bag", s, b, NoName, FALSE)
     ELSE LET r == RemoveRfidsFromBag(scanned_rfids[s], bag_added_rfids[s], name[b])
          IN  /\ scanned_rfids' = [scanned_rfids EXCEPT ![s] = r.sr]
              /\ bag_added_rfids' = [bag_added_rfids EXCEPT ![s] = r.ba]
              /\ recorded' = [recorded EXCEPT ![s][b] = {}]
              /\ last' = Call("remove_rfids_from_bag", s, b, NoName, TRUE)
  /\ UNCHANGED <<regVars, nameVars, bagVars, tagItemVars, attached_bag, hidden>>

(* ---------------- Bag.delete_self ---------------- *)
\* One round of the loop over self.items[:] on st = [inst: instances,
\* at: attached_tag, ai: attached_item, h: hidden, sg: shape_gone,
\* its: self.items].  item.attached_tag is read again after the detach.
\* (canvas.delete of a label is not part of the state.)
DeleteSelfItem(st, item) ==
  LET t == st.at[item]
      d == IF t # None THEN DetachFields(st.at, st.ai, st.h, st.sg, t)
           ELSE [at |-> st.at, ai |-> st.ai, h |-> st.h]
      t2 == d.at[item]
      inst1 == IF t # None /\ t2 # None /\ InSeq(st.inst, t2)
               THEN RemoveFirst(st.inst, t2) ELSE st.inst
      inst2 == IF InSeq(inst1, item) THEN RemoveFirst(inst1, item) ELSE inst1
  IN  [inst |-> inst2, at |-> d.at, ai |-> d.ai, h |-> d.h,
       sg |-> st.sg \cup {item}, its |-> RemoveFirst(st.its, item)]

RECURSIVE DeleteSelfItems(_, _)
DeleteSelfItems(st, snapshot) ==
  IF snapshot = <<>> THEN st
  ELSE DeleteSelfItems(DeleteSelfItem(st, Head(snapshot)), Tail(snapshot))

\* Bag.delete_self: items and tags, then the scanner, then the bag.  If
\* remove_scanner raises (the bag's shape is already deleted) the bag stays.
DeleteSelf(b) ==
  /\ b \in Bags /\ b \in made
  /\ LET st == DeleteSelfItems([inst |-> instances, at |-> attached_tag,
                                ai |-> attached_item, h |-> hidden,
                                sg |-> shape_gone, its |-> items[b]], items[b])
         r == RemoveScannerFields(attached_scanner, attached_bag, st.h, st.sg, b)
     IN  /\ attached_tag' = st.at
         /\ attached_item' = st.ai
         /\ items' = [items EXCEPT ![b] = st.its]
         /\ attached_scanner' = r.asc
         /\ attached_bag' = r.ab
         /\ hidden' = r.h
         /\ IF r.raised
            THEN /\ instances' = st.inst
                 /\ shape_gone' = st.sg
            ELSE /\ instances' = IF InSeq(st.inst, b) THEN RemoveFirst(st.inst, b)
                                 ELSE st.inst
                 /\ shape_gone' = st.sg \cup {b}
         /\ last' = Call("delete_self", b, attached_scanner[b], NoName, ~r.raised)
  /\ UNCHANGED <<made, nameVars, is_open, max_items, item_rfid, tag_rfid,
                 scanned_rfids, bag_added_rfids, recorded>>

(* ---------------- initial states ---------------- *)
\* Program start: nothing constructed, empty registry, no pools.  (A pool that
\* does not exist yet is the one setdefault creates, FreshPool.)
InitEmpty ==
  /\ made = {}
  /\ shape_gone = {}
  /\ instances = <<>>
  /\ name = [o \in Obj |-> NoName]
  /\ pools = [c \in Classes |-> FreshPool]
  /\ outstanding = [c \in Classes |-> {}]
  /\ is_open = [b \in Bags |-> FALSE]
  /\ max_items = [b \in Bags |-> 0]
  /\ items = [b \in Bags |-> <<>>]
  /\ attached_scanner = [b \in Bags |-> None]
  /\ attached_tag = [i \in Items |-> None]
  /\ item_rfid = [i \in Items |-> NoRfid]
  /\ attached_item = [t \in Tags |-> None]
  /\ tag_rfid = [t \in Tags |-> NoRfid]
  /\ attached_bag = [s \in Scanners |-> None]
  /\ scanned_rfids = [s \in Scanners |-> {}]
  /\ bag_added_rfids = [s \in Scanners |-> EmptyLedger]
  /\ recorded = [s \in Scanners |-> [b \in Bags |-> {}]]
  /\ hidden = [o \in Hideable |-> FALSE]
  /\ last = Call("init", None, None, NoName, TRUE)

\* The state after nb Bags, ni Items, nt Tags and ns Scanners were constructed
\* in this order (the "Add" menu), with capacities caps and RFIDs rf.
Pop(cls, n) == {<<cls, k>> : k \in 1..n}
Count(cls, nb, ni, nt, ns) ==
  CASE cls = "Bag" -> nb [] cls = "Item" -> ni [] cls = "Tag" -> nt [] cls = "Scanner" -> ns

PopulatedWith(nb, ni, nt, ns, caps, rf) ==
  LET m == Pop("Bag", nb) \cup Pop("Item", ni) \cup Pop("Tag", nt) \cup Pop("Scanner", ns)
  IN  /\ made = m
      /\ shape_gone = {}
      /\ instances = [k \in 1..nb |-> <<"Bag", k>>] \o [k \in 1..ni |-> <<"Item", k>>]
                     \o [k \in 1..nt |-> <<"Tag", k>>] \o [k \in 1..ns |-> <<"Scanner", k>>]
      /\ name = [o \in Obj |-> IF o \in m THEN Fmt(ClassOf(o), o[2]) ELSE NoName]
      /\ pools = [c \in Classes |-> [next |-> Count(c, nb, ni, nt, ns) + 1, free |-> {}]]
      /\ outstanding = [c \in Classes |-> 1..Count(c, nb, ni, nt, ns)]
      /\ is_open = [b \in Bags |-> FALSE]
      /\ max_items = [b \in Bags |-> IF b \in m THEN caps[b] ELSE 0]
      /\ items = [b \in Bags |-> <<>>]
      /\ attached_scanner = [b \in Bags |-> None]
      /\ attached_tag = [i \in Items |-> None]
      /\ item_rfid = [i \in Items |-> NoRfid]
      /\ attached_item = [t \in Tags |-> None]
      /\ tag_rfid = [t \in Tags |-> IF t \in m THEN rf[t] ELSE NoRfid]
      /\ attached_bag = [s \in Scanners |-> None]
      /\ scanned_rfids = [s \in Scanners |-> {}]
      /\ bag_added_rfids = [s \in Scanners |-> EmptyLedger]
  /\ recorded = [s \in Scanners |-> [b \in Bags |-> {}]]
      /\ hidden = [o \in Hideable |-> FALSE]

InitWith(nb, ni, nt, ns, caps, rf) ==
  /\ PopulatedWith(nb, ni, nt, ns, caps, rf)
  /\ last = Call("init", None, None, NoName, TRUE)

\* The same canvas after tag k was attached to item k by Tag.attach_to_item,
\* for every k up to the smaller of nt and ni: both pointers set, the tag
\* hidden, item.rfid as constructed.
Paired(ni, nt) == 1..(IF ni < nt THEN ni ELSE nt)

InitTagged(nb, ni, nt, ns, caps, rf) ==
  LET m == Pop("Bag", nb) \cup Pop("Item", ni) \cup Pop("Tag", nt) \cup Pop("Scanner", ns)
  IN  /\ made = m
      /\ shape_gone = {}
      /\ instances = [k \in 1..nb |-> <<"Bag", k>>] \o [k \in 1..ni |-> <<"Item", k>>]
                     \o [k \in 1..nt |-> <<"Tag", k>>] \o [k \in 1..ns |-> <<"Scanner", k>>]
      /\ name = [o \in Obj |-> IF o \in m THEN Fmt(ClassOf(o), o[2]) ELSE NoName]
      /\ pools = [c \in Classes |-> [next |-> Count(c, nb, ni, nt, ns) + 1, free |-> {}]]
      /\ outstanding = [c \in Classes |-> 1..Count(c, nb, ni, nt, ns)]
      /\ is_open = [b \in Bags |-> FALSE]
      /\ max_items = [b \in Bags |-> IF b \in m THEN caps[b] ELSE 0]
      /\ items = [b \in Bags |-> <<>>]
      /\ attached_scanner = [b \in Bags |-> None]
      /\ attached_tag = [i \in Items |-> IF i[2] \in Paired(ni, nt) THEN <<"Tag", i[2]>>
                                         ELSE None]
      /\ item_rfid = [i \in Items |-> NoRfid]
      /\ attached_item = [t \in Tags |-> IF t[2] \in Paired(ni, nt) THEN <<"Item", t[2]>>
                                          ELSE None]
      /\ tag_rfid = [t \in Tags |-> IF t \in m THEN rf[t] ELSE NoRfid]
      /\ attached_bag = [s \in Scanners |-> None]
      /\ scanned_rfids = [s \in Scanners |-> {}]
      /\ bag_added_rfids = [s \in Scanners |-> EmptyLedger]
      /\ recorded = [s \in Scanners |-> [b \in Bags |-> {}]]
      /\ hidden = [o \in Hideable |-> o \in Tags /\ o[2] \in Paired(ni, nt)]
      /\ last = Call("attach_to_item", <<"Tag", 1>>, <<"Item", 1>>, NoName, TRUE)

(* ---------------- names: create / rename / delete of one class ---------------- *)
NextNames ==
  \/ \E o \in Items : CreateItem(o)
  \/ \E o \in Items : \E new \in RenameNames("Item") \cup {NoName} : Rename(o, new)
  \/ \E o \in Items : Delete(o)

SpecNames == InitEmpty /\ [][NextNames]_vars

(* ---------------- create / delete of one class, no rename ---------------- *)
NextCreateDelete ==
  \/ \E o \in Items : CreateItem(o)
  \/ \E o \in Items : Delete(o)

SpecCreateDelete == InitEmpty /\ [][NextCreateDelete]_vars

(* ---------------- Item <-> Tag calls over constructed items and tags ---------------- *)
\* Every bag with the largest capacity of the model.
FullCaps == [b \in Bags |-> MaxCap]

\* Tag k built with rfid k (wrapping around the RFIDs of the model).
SpreadRfids == [t \in Tags |-> ((t[2] - 1) % NumRfids) + 1]

InitTagItem == InitWith(0, PopItems, PopTags, 0, FullCaps, SpreadRfids)

NextTagItem ==
  \/ \E i \in Items, t \in Tags : AttachTag(i, t)
  \/ \E i \in Items : RemoveTag(i)
  \/ \E t \in Tags, i \in Items : AttachToItem(t, i)
  \/ \E t \in Tags : DetachFromItem(t)

SpecTagItem == InitTagItem /\ [][NextTagItem]_vars

(* ---------------- Scanner <-> Bag calls over constructed bags and scanners ---------------- *)
InitScan == InitWith(PopBags, 0, 0, PopScanners, FullCaps, SpreadRfids)

NextScan ==
  \/ \E b \in Bags : OpenBag(b)
  \/ \E b \in Bags : CloseBag(b)
  \/ \E b \in Bags, s \in Scanners : AddScanner(b, s)
  \/ \E b \in Bags : RemoveScanner(b)
  \/ \E s \in Scanners, b \in Bags : AttachToBag(s, b)
  \/ \E s \in Scanners : DetachFromBag(s)

SpecScan == InitScan /\ [][NextScan]_vars

(* ---------------- deletion over a populated canvas ---------------- *)
InitCascade == InitWith(CascBags, PopItems, CascTags, CascScanners, FullCaps, SpreadRfids)

NextCascade ==
  \/ \E b \in Bags : OpenBag(b)
  \/ \E t \in Tags, i \in Items : AttachToItem(t, i)
  \/ \E b \in Bags, i \in Items : AddItem(b, i)
  \/ \E s \in Scanners, b \in Bags : AttachToBag(s, b)
  \/ \E o \in Obj : Delete(o)
  \/ \E b \in Bags : DeleteSelf(b)

SpecCascade == InitCascade /\ [][NextCascade]_vars

(* ---------------- capacity: items in and out of bags ---------------- *)
\* Bags built with any capacity from 0 to MaxCap.
InitCapacity ==
  \E caps \in [Bags -> 0..MaxCap] : InitWith(CascBags, PopItems, 0, 0, caps, SpreadRfids)

NextCapacity ==
  \/ \E b \in Bags : OpenBag(b)
  \/ \E b \in Bags, i \in Items : AddItem(b, i)
  \/ \E b \in Bags, i \in Items : RemoveItem(b, i)
  \/ \E b \in Bags : RemoveAllItems(b)
  \/ \E b \in Bags : CloseBag(b)

SpecCapacity == InitCapacity /\ [][NextCapacity]_vars

(* ---------------- open and closed bags ---------------- *)
\* Item 1 carries tag 1, so that an item added to a bag with a scanner is
\* recorded in the scanner's ledger.
InitGating == InitTagged(CascBags, PopItems, CascTags, CascScanners, FullCaps, SpreadRfids)

NextGating ==
  \/ \E b \in Bags : OpenBag(b)
  \/ \E b \in Bags : CloseBag(b)
  \/ \E b \in Bags, i \in Items : AddItem(b, i)
  \/ \E b \in Bags, s \in Scanners : AddScanner(b, s)
  \/ \E s \in Scanners, b \in Bags : AttachToBag(s, b)

SpecGating == InitGating /\ [][NextGating]_vars

(* ---------------- the scanner ledger called directly ---------------- *)
\* A canvas with one bag, ..., or PopBags bags, and scanners.
InitLedger ==
  \E nb \in 1..PopBags : InitWith(nb, 0, 0, CascScanners, FullCaps, SpreadRfids)

NextLedger ==
  \/ \E s \in Scanners, r \in Rfids, b \in Bags \cup {None} : CallAddRfidFromBag(s, r, b)
  \/ \E s \in Scanners, b \in Bags \cup {None} : CallRemoveRfidsFromBag(s, b)

SpecLedger == InitLedger /\ [][NextLedger]_vars

\* The same with bags renamed in between.
NextLedgerRename ==
  \/ NextLedger
  \/ \E b \in Bags : \E new \in RenameNames("Bag") \cup {NoName} : Rename(b, new)

SpecLedgerRename == InitLedger /\ [][NextLedgerRename]_vars

(* ---------------- bags with items, tags and a scanner ---------------- *)
InitBagScan == InitTagged(PopBags, PopItems, CascTags, CascScanners, FullCaps, SpreadRfids)

NextBagScan ==
  \/ \E b \in Bags : OpenBag(b)
  \/ \E b \in Bags, i \in Items : AddItem(b, i)
  \/ \E b \in Bags, i \in Items : RemoveItem(b, i)
  \/ \E b \in Bags : RemoveAllItems(b)
  \/ \E b \in Bags, s \in Scanners : AddScanner(b, s)
  \/ \E b \in Bags : RemoveScanner(b)
  \/ \E i \in Items : RemoveTag(i)
  \/ \E t \in Tags, i \in Items : AttachToItem(t, i)

SpecBagScan == InitBagScan /\ [][NextBagScan]_vars

(* ---------------- delete_self of a bag with a scanner ---------------- *)
InitBagDelete == InitWith(CascBags, CascItems, 0, CascScanners, FullCaps, SpreadRfids)

NextBagDelete ==
  \/ \E b \in Bags : OpenBag(b)
  \/ \E b \in Bags, i \in Items : AddItem(b, i)
  \/ \E b \in Bags, s \in Scanners : AddScanner(b, s)
  \/ \E b \in Bags : Delete(b)
  \/ \E b \in Bags : DeleteSelf(b)

SpecBagDelete == InitBagDelete /\ [][NextBagDelete]_vars

(* ---------------- an open bag with its scanner, tagged items ---------------- *)
\* The canvas after the constructions, Tag.attach_to_item of tag k on item k,
\* Bag.open_bag of every bag and Bag.add_scanner of scanner k on bag k: the bag
\* is open, bag and scanner point at each other, the scanner is hidden and has
\* recorded nothing yet.
Scanning(nb, ns) == 1..(IF nb < ns THEN nb ELSE ns)

InitScanning(nb, ni, nt, ns, caps, rf) ==
  LET m == Pop("Bag", nb) \cup Pop("Item", ni) \cup Pop("Tag", nt) \cup Pop("Scanner", ns)
  IN  /\ made = m
      /\ shape_gone = {}
      /\ instances = [k \in 1..nb |-> <<"Bag", k>>] \o [k \in 1..ni |-> <<"Item", k>>]
                     \o [k \in 1..nt |-> <<"Tag", k>>] \o [k \in 1..ns |-> <<"Scanner", k>>]
      /\ name = [o \in Obj |-> IF o \in m THEN Fmt(ClassOf(o), o[2]) ELSE NoName]
      /\ pools = [c \in Classes |-> [next |-> Count(c, nb, ni, nt, ns) + 1, free |-> {}]]
      /\ outstanding = [c \in Classes |-> 1..Count(c, nb, ni, nt, ns)]
      /\ is_open = [b \in Bags |-> b \in m]
      /\ max_items = [b \in Bags |-> IF b \in m THEN caps[b] ELSE 0]
      /\ items = [b \in Bags |-> <<>>]
      /\ attached_scanner = [b \in Bags |-> IF b[2] \in Scanning(nb, ns)
                                              THEN <<"Scanner", b[2]>> ELSE None]
      /\ attached_tag = [i \in Items |-> IF i[2] \in Paired(ni, nt) THEN <<"Tag", i[2]>>
                                         ELSE None]
      /\ item_rfid = [i \in Items |-> NoRfid]
      /\ attached_item = [t \in Tags |-> IF t[2] \in Paired(ni, nt) THEN <<"Item", t[2]>>
                                          ELSE None]
      /\ tag_rfid = [t \in Tags |-> IF t \in m THEN rf[t] ELSE NoRfid]
      /\ attached_bag = [s \in Scanners |-> IF s[2] \in Scanning(nb, ns)
                                              THEN <<"Bag", s[2]>> ELSE None]
      /\ scanned_rfids = [s \in Scanners |-> {}]
      /\ bag_added_rfids = [s \in Scanners |-> EmptyLedger]
      /\ recorded = [s \in Scanners |-> [b \in Bags |-> {}]]
      /\ hidden = [o \in Hideable |->
                     \/ (o \in Tags /\ o[2] \in Paired(ni, nt))
                     \/ (o \in Scanners /\ o[2] \in Scanning(nb, ns))]
      /\ last = Call("add_scanner", <<"Bag", 1>>, <<"Scanner", 1>>, NoName, TRUE)

InitComplete == InitScanning(CascBags, PopItems, PopTags, CascScanners, FullCaps, SpreadRfids)

NextComplete ==
  \/ \E b \in Bags : OpenBag(b)
  \/ \E b \in Bags : CloseBag(b)
  \/ \E b \in Bags, i \in Items : AddItem(b, i)
  \/ \E b \in Bags, i \in Items : RemoveItem(b, i)
  \/ \E b \in Bags : RemoveAllItems(b)

SpecComplete == InitComplete /\ [][NextComplete]_vars

(* ---------------- nearest-neighbour queries ---------------- *)
\* The centres _center_of_shape can return: ((x1 + x2) / 2, (y1 + y2) / 2)
Grid == {<<x * GridStep, y * GridStep>> : x \in 0..GridMax, y \in 0..GridMax}

\* (ix - bx) ** 2 + (iy - by) ** 2.  The code compares the square roots of
\* these integers; on integers of this size the square root is strictly
\* monotonic and exact on squares, so the squares are compared instead.
Dist2(p, q) == (p[1] - q[1]) * (p[1] - q[1]) + (p[2] - q[2]) * (p[2] - q[2])

\* dist < nearest_dist, with a candidate that is at most as far
CloserOrEqual(d2, nd2) == d2 <= nd2

\* dist < nearest_dist
Closer(d2, nd2) == d2 < nd2

\* The loop `for obj in ClickableObject.instances` from index k on, with
\* st = [nearest, d2] the nearest so far and its squared distance, c the
\* centre of the caller, pos the centres of the shapes and cand the objects
\* that pass the isinstance / field test and have a bounding box.
RECURSIVE ScanFrom(_, _, _, _, _)
ScanFrom(k, st, c, pos, cand) ==
  IF k > Len(instances) THEN st.nearest
  ELSE LET obj == instances[k]
       IN  IF obj \in cand /\ Closer(Dist2(c, pos[obj]), st.d2)
           THEN ScanFrom(k + 1, [nearest |-> obj, d2 |-> Dist2(c, pos[obj])], c, pos, cand)
           ELSE ScanFrom(k + 1, st, c, pos, cand)

\* nearest = None; nearest_dist = max_distance; the loop; return nearest
NearestIn(c, pos, cand, maxd) ==
  ScanFrom(1, [nearest |-> None, d2 |-> maxd * maxd], c, pos, cand)

\* The centre of the entity that asks.  The candidates' centres range over
\* the whole grid, so every pair of offsets (|dx|, |dy|) of the grid occurs.
Corner == <<0, 0>>

\* The record of a query: its result, whether it returned, and the centres
\* the canvas gave it for the candidates' shapes.
Query(op, self, res, returned, pos) ==
  [op |-> op, self |-> self, arg |-> res, nm |-> NoName, ok |-> returned, pos |-> pos]

\* The registered bags: Bag has no _center_of_shape of its own, and the one
\* of ClickableObject unpacks canvas.bbox(...) without a test, so a bag in
\* the loop that has no bounding box raises TypeError.
BagRaises(bs) == \E b \in bs : InSeq(instances, b) /\ ~HasBbox(b)

\* Tag.find_nearest_item(): None when the tag has no bounding box; items
\* with a tag or without a bounding box are passed over.
FindNearestItem(t) ==
  /\ t \in Tags /\ t \in made
  /\ \E pos \in [Items \cap made -> Grid] :
       LET cand == {i \in Items \cap made : attached_tag[i] = None /\ HasBbox(i)}
           res == IF HasBbox(t) THEN NearestIn(Corner, pos, cand, TagMaxDistance) ELSE None
       IN  last' = Query("find_nearest_item", t, res, TRUE, pos)
  /\ UNCHANGED <<regVars, nameVars, bagVars, tagItemVars, scanVars, hidden>>

\* Scanner._find_nearest_bag(): Scanner inherits _center_of_shape from
\* ClickableObject, so a scanner without a bounding box raises TypeError.
ScannerFindNearestBag(sc) ==
  /\ sc \in Scanners /\ sc \in made
  /\ \E pos \in [Bags \cap made -> Grid] :
       LET cand == Bags \cap made
           raises == ~HasBbox(sc) \/ BagRaises(cand)
           res == IF raises THEN None
                  ELSE NearestIn(Corner, pos, cand, ScannerMaxDist)
       IN  last' = Query("_find_nearest_bag", sc, res, ~raises, pos)
  /\ UNCHANGED <<regVars, nameVars, bagVars, tagItemVars, scanVars, hidden>>

\* Item.find_nearest_bag(): None when the item has no bounding box; closed
\* bags are passed over.
FindNearestBag(i) ==
  /\ i \in Items /\ i \in made
  /\ \E pos \in [Bags \cap made -> Grid] :
       LET cand == {b \in Bags \cap made : is_open[b]}
           raises == HasBbox(i) /\ BagRaises(cand)
           res == IF HasBbox(i) /\ ~raises
                  THEN NearestIn(Corner, pos, cand, ItemMaxDistance) ELSE None
       IN  last' = Query("find_nearest_bag", i, res, ~raises, pos)
  /\ UNCHANGED <<regVars, nameVars, bagVars, tagItemVars, scanVars, hidden>>

\* A canvas with items and a tag around one bag, or one with bags around an
\* item and a scanner.
InitNearest ==
  \/ InitWith(CascBags, PopItems, CascTags, CascScanners, FullCaps, SpreadRfids)
  \/ InitWith(PopBags, CascItems, 0, CascScanners, FullCaps, SpreadRfids)

NextNearest ==
  \/ \E b \in Bags : OpenBag(b)
  \/ \E b \in Bags, i \in Items : AddItem(b, i)
  \/ \E t \in Tags, i \in Items : AttachToItem(t, i)
  \/ \E b \in Bags, sc \in Scanners : AddScanner(b, sc)
  \/ \E t \in Tags : FindNearestItem(t)
  \/ \E sc \in Scanners : ScannerFindNearestBag(sc)
  \/ \E i \in Items : FindNearestBag(i)

SpecNearest == InitNearest /\ [][NextNearest]_vars

(* ---------------- the whole program ---------------- *)
\* Every call on every constructed object, from program start.  The
\* specifications above start from states it reaches and take some of its
\* calls.
Next ==
  \/ \E o \in Bags, mi \in 1..MaxCap : CreateBag(o, mi)
  \/ \E o \in Items : CreateItem(o)
  \/ \E o \in Tags, r \in Rfids : CreateTag(o, r)
  \/ \E o \in Scanners : CreateScanner(o)
  \/ \E o \in Obj : \E new \in RenameNames(ClassOf(o)) \cup {NoName} : Rename(o, new)
  \/ \E o \in Obj : Delete(o)
  \/ NextTagItem
  \/ NextScan
  \/ \E b \in Bags, i \in Items : AddItem(b, i)
  \/ \E b \in Bags, i \in Items : RemoveItem(b, i)
  \/ \E b \in Bags : RemoveAllItems(b)
  \/ \E b \in Bags : DeleteSelf(b)
  \/ \E s \in Scanners, r \in Rfids, b \in Bags \cup {None} : CallAddRfidFromBag(s, r, b)
  \/ \E s \in Scanners, b \in Bags \cup {None} : CallRemoveRfidsFromBag(s, b)
  \/ \E t \in Tags : FindNearestItem(t)
  \/ \E sc \in Scanners : ScannerFindNearestBag(sc)
  \/ \E i \in Items : FindNearestBag(i)

Spec == InitEmpty /\ [][Next]_vars

(* ======================= properties ======================= *)
Registered(o) == InSeq(instances, o)
Range(q) == {q[k] : k \in DOMAIN q}
\* The step just taken is the call op on self
Did(op, self) == last'.op = op /\ last'.self = self

\* C1: in every state reached by Item.attach_tag, Tag.attach_to_item,
\* Item.remove_tag and Tag.detach_from_item calls, a tag points at an item
\* exactly if that item points back at the tag.
C1_TagItemSymmetric ==
  \A t \in Tags, i \in Items : (attached_item[t] = i) <=> (attached_tag[i] = t)

\* C2: in every state reached by add_scanner, attach_to_bag, remove_scanner,
\* detach_from_bag, open_bag and close_bag calls, a scanner points at a bag
\* exactly if that bag points back at the scanner.
C2_ScannerBagSymmetric ==
  \A sc \in Scanners, b \in Bags : (attached_bag[sc] = b) <=> (attached_scanner[b] = sc)

\* C3: after any sequence of creations and ClickableObject.delete calls of one
\* class, no two registered entities have the same name.
C3_NamesUnique ==
  \A k1, k2 \in DOMAIN instances :
    k1 # k2 => name[instances[k1]] # name[instances[k2]]

\* The smallest positive integer not in S
SmallestNotIn(S) == Min({n \in 1..(Cardinality(S) + 1) : n \notin S})

\* C4: every next_name call (one per construction) returns the smallest
\* positive suffix that is not outstanding for the class.
C4_SmallestFree ==
  [][\A o \in Obj : Did("create", o) =>
       name'[o] = Fmt(ClassOf(o), SmallestNotIn(outstanding[ClassOf(o)]))]_vars

C6_ReleaseOfNotOutstandingIsNoop ==
  [][\A o \in Obj :
       ( /\ Did("rename", o) \/ Did("delete", o)
         /\ last'.op = "rename" => last'.ok
         /\ Matches(ClassOf(o), name[o])
         /\ ToInt(name[o].num) \notin outstanding[ClassOf(o)] )
       => pools' = pools]_vars

\* The tags attached to the items of bag b
TagsOfItemsIn(b) == {attached_tag[i] : i \in Range(items[b])} \ {None}

\* C7: delete_self removes from the registry exactly the bag, its items and
\* the tags attached to those items.
C7_CascadeRemovesExactly ==
  [][\A b \in Bags : Did("delete_self", b) =>
       Range(instances) \ Range(instances')
         = ({b} \cup Range(items[b]) \cup TagsOfItemsIn(b)) \cap Range(instances)]_vars

\* The suffix of o's name is free for the next next_name call of its class
\* (in the state after the step).
ReleasedAfter(o) ==
  Matches(ClassOf(o), name[o]) => ToInt(name[o].num) \in pools'[ClassOf(o)].free

\* C8: after delete_self the suffixes of the bag, of its items and of their
\* tags are free in the pools of their classes.
C8_CascadeReleasesNames ==
  [][\A b \in Bags : (Did("delete_self", b) /\ Registered(b)) =>
       \A o \in {b} \cup Range(items[b]) \cup TagsOfItemsIn(b) :
         Registered(o) => ReleasedAfter(o)]_vars

\* No registered entity refers to an unregistered one
NoDanglingReference ==
  /\ \A i \in Items : (Registered(i) /\ attached_tag[i] # None) => Registered(attached_tag[i])
  /\ \A t \in Tags : (Registered(t) /\ attached_item[t] # None) => Registered(attached_item[t])
  /\ \A sc \in Scanners : (Registered(sc) /\ attached_bag[sc] # None) => Registered(attached_bag[sc])
  /\ \A b \in Bags : Registered(b) =>
       /\ attached_scanner[b] # None => Registered(attached_scanner[b])
       /\ \A i \in Range(items[b]) : Registered(i)

\* C9: after ClickableObject.delete or Bag.delete_self no registered entity
\* holds a reference to an entity that is no longer registered.
C9_DeleteLeavesNoDanglingReference ==
  [][last'.op \in {"delete", "delete_self"} => NoDanglingReference']_vars

\* C10: an attach request through Item.attach_tag or Tag.attach_to_item made
\* while the tag or the item is taken is refused and changes no attached_tag,
\* attached_item, rfid or hidden field.
C10_AttachRefusedWhenTaken ==
  [][\A i \in Items, t \in Tags :
       ( /\ \/ Did("attach_tag", i) /\ last'.arg = t
            \/ Did("attach_to_item", t) /\ last'.arg = i
         /\ attached_item[t] # None \/ attached_tag[i] # None )
       => /\ ~last'.ok
          /\ UNCHANGED <<attached_tag, attached_item, item_rfid, tag_rfid, hidden>>]_vars

\* C11: after any sequence of add_item, remove_item and remove_all_items calls
\* (on bags built with a capacity of 0 or more, opened and closed at will) no
\* bag holds more items than its max_items, and an add_item call made on a bag
\* that holds exactly max_items items is refused and leaves items unchanged.
C11_CapacityRespected ==
  /\ [](\A b \in Bags : Len(items[b]) <= max_items[b])
  /\ [][\A b \in Bags :
          (Did("add_item", b) /\ Len(items[b]) = max_items[b])
          => (~last'.ok /\ items' = items)]_vars

\* C11 witness: an open bag of capacity 1 or more is full, and the last call
\* was an add_item of an item it does not hold, refused.
C11_Witness ==
  /\ last.op = "add_item" /\ ~last.ok
  /\ is_open[last.self]
  /\ max_items[last.self] >= 1
  /\ Len(items[last.self]) = max_items[last.self]
  /\ ~InSeq(items[last.self], last.arg)

\* C12: add_item, add_scanner and attach_to_bag on a closed bag are refused
\* and change no field: items, attached_scanner, attached_bag, the hidden
\* flags and the ledgers of all scanners are as before the call.
C12_ClosedBagRefuses ==
  [][\A b \in Bags :
       ( /\ ~is_open[b]
         /\ \/ Did("add_item", b)
            \/ Did("add_scanner", b)
            \/ (last'.op = "attach_to_bag" /\ last'.arg = b) )
       => /\ ~last'.ok
          /\ UNCHANGED <<is_open, items, attached_scanner, attached_bag, hidden,
                         scanned_rfids, bag_added_rfids>>]_vars

\* C12 witness: a closed bag that holds an item and has no scanner was asked
\* to take a scanner, and refused.
C12_Witness ==
  /\ last.op = "add_scanner" /\ ~last.ok
  /\ ~is_open[last.self]
  /\ attached_scanner[last.self] = None
  /\ items[last.self] # <<>>

\* C13: after any sequence of add_rfid_from_bag and remove_rfids_from_bag
\* calls, every set stored in a scanner's bag_added_rfids is a subset of that
\* scanner's scanned_rfids.
C13_LedgerSubset ==
  \A s \in Scanners : \A k \in DOMAIN bag_added_rfids[s] :
    bag_added_rfids[s][k] \subseteq scanned_rfids[s]

\* C13 witness: a bag's entry was just purged while the entry of another bag
\* still holds an RFID.
C13_Witness ==
  /\ last.op = "remove_rfids_from_bag" /\ last.arg # None
  /\ \E k \in DOMAIN bag_added_rfids[last.self] :
       /\ k # name[last.arg]
       /\ bag_added_rfids[last.self][k] # {}

\* C14: remove_rfids_from_bag(bag) removes from scanned_rfids exactly the
\* RFIDs that were recorded via that bag and not purged since, leaves the
\* bag's ledger entry empty, and leaves the entries of the other bags as they
\* were.
C14_PurgeExact ==
  [][\A s \in Scanners, b \in Bags :
       (Did("remove_rfids_from_bag", s) /\ last'.arg = b) =>
         /\ scanned_rfids'[s] = scanned_rfids[s] \ recorded[s][b]
         /\ LedgerGet(bag_added_rfids'[s], name[b]) = {}
         /\ \A k \in DOMAIN bag_added_rfids[s] \ {name[b]} :
              LedgerGet(bag_added_rfids'[s], k) = bag_added_rfids[s][k]]_vars

\* C15: a successful remove_item on a bag with an attached scanner, of an
\* item with or without a tag, leaves the scanner with an empty ledger entry
\* for the bag and with none of the RFIDs of that entry in scanned_rfids.
C15_RemoveItemPurges ==
  [][\A b \in Bags :
       (Did("remove_item", b) /\ last'.ok /\ attached_scanner[b] # None) =>
         LET sc == attached_scanner[b]
         IN  /\ LedgerGet(bag_added_rfids'[sc], name[b]) = {}
             /\ scanned_rfids'[sc] \cap LedgerGet(bag_added_rfids[sc], name[b]) = {}]_vars

\* The orders in which the items of the list q can be taken
Orders(q) == {p \in [1..Len(q) -> Range(q)] : Range(p) = Range(q)}

\* Two ledgers hold the same RFIDs for every bag name
SameLedger(ba1, ba2) ==
  \A k \in DOMAIN ba1 \cup DOMAIN ba2 : LedgerGet(ba1, k) = LedgerGet(ba2, k)

\* C16: remove_all_items leaves bag.items, the hidden flags, scanned_rfids and
\* the ledgers as remove_item called once for each item of bag.items does, in
\* any order.
C16_RemoveAllEqualsEach ==
  [][\A b \in Bags : Did("remove_all_items", b) =>
       \A p \in Orders(items[b]) :
         LET st == RemoveEach([its |-> items[b], sr |-> scanned_rfids,
                               ba |-> bag_added_rfids, rec |-> recorded,
                               h |-> hidden, raised |-> FALSE], b, p)
         IN  /\ items'[b] = st.its
             /\ hidden' = st.h
             /\ scanned_rfids' = st.sr
             /\ \A s \in Scanners : SameLedger(bag_added_rfids'[s], st.ba[s])]_vars

\* C17: in every state reached by Item.attach_tag, Tag.attach_to_item,
\* Item.remove_tag and Tag.detach_from_item calls, an item with a tag has the
\* tag's rfid as its rfid and an item without a tag has "No RFID".
C17_ItemRfidFollowsTag ==
  \A i \in Items : i \in made =>
    item_rfid[i] = IF attached_tag[i] # None THEN tag_rfid[attached_tag[i]] ELSE NoRfid

\* C18: right after a successful attach through Tag.attach_to_item or
\* Item.attach_tag the tag is hidden; right after a successful detach through
\* Tag.detach_from_item or Item.remove_tag the tag is not hidden and the item
\* has no tag.
C18_TagHiddenWhileAttached ==
  [][\A i \in Items, t \in Tags :
       /\ ( /\ last'.ok
            /\ \/ Did("attach_tag", i) /\ last'.arg = t
               \/ Did("attach_to_item", t) /\ last'.arg = i )
          => hidden'[t]
       /\ ( /\ last'.ok
            /\ \/ Did("remove_tag", i) /\ last'.arg = t
               \/ Did("detach_from_item", t) /\ last'.arg = i )
          => (~hidden'[t] /\ attached_tag'[i] = None)]_vars

\* C19: an add_item on an open bag below its capacity that does not hold the
\* item appends the item to bag.items, hides the item and, with a scanner on
\* the bag and a tag on the item, leaves the tag's rfid in the scanner's
\* scanned_rfids; the remove_item of that item that follows takes the rfid
\* out of scanned_rfids again.
C19_AddItemEffects ==
  [][\A b \in Bags, i \in Items :
       /\ ( /\ Did("add_item", b) /\ last'.arg = i
            /\ is_open[b] /\ Len(items[b]) < max_items[b] /\ ~InSeq(items[b], i) )
          => /\ items'[b] = Append(items[b], i)
             /\ hidden'[i]
             /\ (attached_scanner[b] # None /\ attached_tag[i] # None)
                  => tag_rfid[attached_tag[i]] \in scanned_rfids'[attached_scanner[b]]
       /\ ( /\ Did("remove_item", b) /\ last'.arg = i
            /\ last = Call("add_item", b, i, NoName, TRUE)
            /\ attached_scanner[b] # None /\ attached_tag[i] # None )
          => tag_rfid[attached_tag[i]] \notin scanned_rfids'[attached_scanner[b]]]_vars

\* C20: ClickableObject.delete of an entity that is not in instances leaves
\* instances and the NameAllocator pools as they were.
C20_DeleteOfAbsentIsNoop ==
  [][\A o \in Obj : (Did("delete", o) /\ ~Registered(o)) =>
       (instances' = instances /\ pools' = pools)]_vars

C23_SingleContainment ==
  \A i \in Items :
    /\ \A b1, b2 \in Bags : (InSeq(items[b1], i) /\ InSeq(items[b2], i)) => b1 = b2
    /\ \A b \in Bags : Cardinality({k \in DOMAIN items[b] : items[b][k] = i}) <= 1

\* C24: for every scanner attached to a bag, scanned_rfids contains the rfid
\* of every tagged item in the bag's items list.  (In SpecComplete the scanner
\* is attached before the first add_item and stays attached, and no tag is
\* moved, so every item in the list was added, tagged, while it was attached.)
C24_LedgerComplete ==
  \A b \in Bags, s \in Scanners :
    (attached_scanner[b] = s /\ attached_bag[s] = b) =>
      \A i \in Range(items[b]) :
        attached_tag[i] # None => tag_rfid[attached_tag[i]] \in scanned_rfids[s]

\* C25: the RFIDs a scanner recorded via a bag stay attributed to that bag
\* object whatever the bags are named: remove_rfids_from_bag(bag) leaves in
\* scanned_rfids none of the RFIDs recorded via that bag, and takes away none
\* of the RFIDs recorded via another bag only.
C25_AttributionByObject ==
  [][\A s \in Scanners, b \in Bags :
       (Did("remove_rfids_from_bag", s) /\ last'.arg = b) =>
         /\ scanned_rfids'[s] \cap recorded[s][b] = {}
         /\ \A b2 \in Bags \ {b} :
              (scanned_rfids[s] \cap recorded[s][b2]) \ recorded[s][b]
                 \subseteq scanned_rfids'[s]]_vars

\* C26: every registered item that is hidden is in the items list of a
\* registered bag, and every registered scanner that is hidden is the
\* attached_scanner of a registered bag.
C26_NoOrphanedHidden ==
  /\ \A i \in Items : (Registered(i) /\ hidden[i]) =>
        \E b \in Bags : Registered(b) /\ InSeq(items[b], i)
  /\ \A s \in Scanners : (Registered(s) /\ hidden[s]) =>
        \E b \in Bags : Registered(b) /\ attached_scanner[b] = s

\* The three queries, the registered entities that satisfy the predicate of
\* each, and the threshold of each
QueryOps == {"find_nearest_item", "_find_nearest_bag", "find_nearest_bag"}

Satisfying(op) ==
  CASE op = "find_nearest_item" -> {i \in Items : Registered(i) /\ attached_tag[i] = None}
    [] op = "_find_nearest_bag" -> {b \in Bags : Registered(b)}
    [] op = "find_nearest_bag" -> {b \in Bags : Registered(b) /\ is_open[b]}

Threshold(op) ==
  CASE op = "find_nearest_item" -> TagMaxDistance
    [] op = "_find_nearest_bag" -> ScannerMaxDist
    [] op = "find_nearest_bag" -> ItemMaxDistance

\* res is, among the entities of cands strictly nearer than maxd, the one at
\* minimum distance and the first of the registry among those; None when
\* there is none.
IsNearest(res, cands, pos, maxd) ==
  LET within == {o \in cands : Dist2(Corner, pos[o]) < maxd * maxd}
  IN  IF within = {} THEN res = None
      ELSE /\ res \in within
           /\ \A o \in within :
                /\ Dist2(Corner, pos[res]) <= Dist2(Corner, pos[o])
                /\ Dist2(Corner, pos[res]) = Dist2(Corner, pos[o]) =>
                     IndexOf(instances, res) <= IndexOf(instances, o)

\* C22 (as stated): each query returns, among the registered entities that
\* satisfy its predicate and are strictly nearer than the threshold, the one
\* at minimum distance, the first in instances order among equals, and None
\* when there is none.
C22_NearestAmongSatisfying ==
  last.op \in QueryOps =>
    /\ last.ok
    /\ IsNearest(last.arg, Satisfying(last.op), last.pos, Threshold(last.op))

\* C22 (amended): the same among the entities that also have a bounding box,
\* that is, are not hidden; and a hidden tag or item that asks gets None,
\* while a hidden scanner's query raises.
C22_NearestAmongShown ==
  last.op \in QueryOps =>
    IF HasBbox(last.self)
    THEN /\ last.ok
         /\ IsNearest(last.arg, {o \in Satisfying(last.op) : HasBbox(o)},
                      last.pos, Threshold(last.op))
    ELSE IF last.op = "_find_nearest_bag" THEN ~last.ok
         ELSE last.ok /\ last.arg = None

\* C22 witness: find_nearest_item returned the first registered of two shown,
\* untagged items at the same distance below the threshold.
C22_Witness ==
  /\ last.op = "find_nearest_item" /\ last.arg # None
  /\ \E o \in Satisfying(last.op) \ {last.arg} :
       /\ HasBbox(o)
       /\ Dist2(Corner, last.pos[o]) = Dist2(Corner, last.pos[last.arg])
       /\ last.pos[o] # last.pos[last.arg]
====
